---- MODULE Spec2Model ----
(***************************************************************************)
(* Verification model of zyppng::EventDispatcher (the per-thread reactor   *)
(* on top of the GLib main context): the thread-local registry, the fd     *)
(* source adapters (GAbstractEventSource), the timer source adapters       *)
(* (GLibTimerSource), the idle queue and the deferred-release list.        *)
(***************************************************************************)
EXTENDS Integers, Sequences, FiniteSets, TLC

(***************************************************************************)
(* Bounds of the model.                                                    *)
(***************************************************************************)
\* number of EventDispatcher objects ever constructed in one behaviour
MaxReactors == 3

\* threads of control that construct and release EventDispatcher handles
Threads == {"t1", "t2"}

\* the null pointer of the thread-local slot
NoReactor == 0

ReactorIds == 1..MaxReactors

\* Event sources (objects implementing onFdReady) owned by this dispatcher
Notifiers == {"S1", "S2"}

\* an event source whose eventDispatcher() is another dispatcher
ForeignNotifiers == {"S3"}

\* file descriptors handed to updateEventSource
FDs == {4, 5}

\* the all-fds sentinel of removeEventSource, also the pollfd of an orphaned entry
ALL_FDS == -1

\* Timer objects
Timers == {"T1", "T2"}

\* values remaining() of a freshly started or rearmed Timer can report (ms)
Remainings == {0, 50}

\* watch entries one adapter holds at most (orphaned ones included)
MaxEntries == 3

\* calls that register or remove something (updateEventSource,
\* removeEventSource, registerTimer, removeTimer, invokeOnIdle, unrefLater)
\* made in one behaviour
MaxCalls == 3

VARIABLES
    \* ---- thread-local registry and object lifetime
    threadDispatch,   \* [Threads -> ReactorIds \cup {NoReactor}]: static __thread threadDispatch
    live,             \* EventDispatcher objects constructed and not yet destroyed
    myThreadId,       \* [live reactor -> thread]: EventDispatcherPrivate::_myThreadId
    nextReactor,      \* next object identity handed out by operator new
    lifeEvt,          \* observation of the last lifetime operation
    \* ---- EventDispatcherPrivate of one dispatcher and its GMainContext
    eventSources,     \* _eventSources: sequence of GAbstractEventSource
    runningTimers,    \* _runningTimers: sequence of GLibTimerSource, each named by its _t
    remaining,        \* [Timers -> Nat]: what Timer::remaining() reports
    ctxSources,       \* default-priority GSources attached to _ctx, in attach order
    idleSource,       \* _idleSource: "new", "attached" or "destroyed"
    idleFuncs,        \* _idleFuncs: queue of idle callbacks
    rerunQueue,       \* rerunQueue of the running runIdleTasks()
    unrefLater,       \* _unrefLater
    \* ---- position of the thread inside g_main_context_iteration / g_main_loop_run
    pc,               \* "out", "poll", "check", "dispatch", "fdloop", "idleloop", "callback", "crashed"
    loop,             \* [inRun, isRunning, mayBlock]
    pollTimeout,      \* timeout handed to the native poll of this iteration
    pending,          \* GLib's pending dispatches of this iteration
    cur,              \* the dispatch function on the stack and its loop position
    iterInvalid,      \* the iterators of the running pollfds loop have been invalidated
    \* ---- observations
    calls,            \* registering and removing calls made so far
    lastOp,           \* the step taken last
    iter,             \* what happened in the current iteration
    idleObs           \* what happened to idle callbacks and deferred objects

lifeVars == <<threadDispatch, live, myThreadId, nextReactor, lifeEvt>>

fdVars == <<eventSources, calls>>

timerVars == <<runningTimers, remaining>>

idleVars == <<idleSource, idleFuncs, rerunQueue, unrefLater, idleObs>>

loopVars == <<pc, loop, pollTimeout, pending, cur, iterInvalid>>

vars == <<threadDispatch, live, myThreadId, nextReactor, lifeEvt,
          eventSources, runningTimers, remaining, ctxSources,
          idleSource, idleFuncs, rerunQueue, unrefLater,
          pc, loop, pollTimeout, pending, cur, iterInvalid,
          calls, lastOp, iter, idleObs>>

\* everything but the thread-local registry
reactorVars == <<eventSources, runningTimers, remaining, ctxSources,
                 idleSource, idleFuncs, rerunQueue, unrefLater,
                 pc, loop, pollTimeout, pending, cur, iterInvalid,
                 calls, lastOp, iter, idleObs>>

(***************************************************************************)
(* Thread-local registry, construction and destruction.                    *)
(***************************************************************************)
\* threads that have a live EventDispatcher constructed on them
LiveOn(t) == {r \in live : myThreadId[r] = t}

\* threadLocalDispatcher( set ) with set != nullptr: throws when the slot of
\* the calling thread is already set, stores the pointer otherwise.
ThreadLocalThrows(slot) == slot /= NoReactor

\* the constructor with the slot of the thread written before the test of
\* line 26 throws
ConstructOverwrites(t, how) ==
    /\ nextReactor <= MaxReactors
    /\ threadDispatch' = [threadDispatch EXCEPT ![t] = nextReactor]
    /\ nextReactor' = nextReactor + 1
    /\ IF ThreadLocalThrows(threadDispatch[t])
       THEN /\ lifeEvt' = [op |-> how, thread |-> t, reactor |-> NoReactor,
                           ok |-> FALSE, hadLive |-> LiveOn(t) /= {}]
            /\ UNCHANGED <<live, myThreadId>>
       ELSE /\ live' = live \cup {nextReactor}
            /\ myThreadId' = [myThreadId EXCEPT ![nextReactor] = t]
            /\ lifeEvt' = [op |-> how, thread |-> t, reactor |-> nextReactor,
                           ok |-> TRUE, hadLive |-> LiveOn(t) /= {}]
    /\ UNCHANGED reactorVars

\* EventDispatcher::EventDispatcher run on thread t; the exception leaves the
\* constructor before the object exists, so no destructor of it runs.
Construct(t, how) ==
    /\ nextReactor <= MaxReactors
    /\ IF ThreadLocalThrows(threadDispatch[t])
       THEN /\ lifeEvt' = [op |-> how, thread |-> t, reactor |-> NoReactor,
                           ok |-> FALSE, hadLive |-> LiveOn(t) /= {}]
            /\ UNCHANGED <<threadDispatch, live, myThreadId, nextReactor>>
            /\ UNCHANGED reactorVars
       ELSE /\ threadDispatch' = [threadDispatch EXCEPT ![t] = nextReactor]
            /\ live' = live \cup {nextReactor}
            /\ myThreadId' = [myThreadId EXCEPT ![nextReactor] = t]
            /\ nextReactor' = nextReactor + 1
            /\ lifeEvt' = [op |-> how, thread |-> t, reactor |-> nextReactor,
                           ok |-> TRUE, hadLive |-> LiveOn(t) /= {}]
            /\ UNCHANGED reactorVars

createMain(t) == Construct(t, "createMain")

createForThread(t) == Construct(t, "createForThread")

\* The slot a destructor running on thread t clears.
DestructorClears(t, r) == t

\* EventDispatcher::~EventDispatcher: the last shared_ptr handle of r is
\* released by thread t; the destructor clears the slot of the thread it
\* runs on.
releaseLast(t, r) ==
    /\ r \in live
    /\ threadDispatch' = [threadDispatch EXCEPT ![DestructorClears(t, r)] = NoReactor]
    /\ live' = live \ {r}
    /\ lifeEvt' = [op |-> "release", thread |-> t, reactor |-> r,
                   ok |-> TRUE, hadLive |-> LiveOn(t) /= {}]
    /\ UNCHANGED <<myThreadId, nextReactor>>
    /\ UNCHANGED reactorVars

\* EventDispatcher::instance called on thread t: the Reactor the slot of t
\* points to, NoReactor for the empty handle
instance(t) == threadDispatch[t]

(***************************************************************************)
(* Condition masks. A GIOCondition is modelled as the set of its bits.     *)
(***************************************************************************)
readMask == {"IN", "HUP"}

writeMask == {"OUT"}

excpMask == {"PRI"}

\* the mode bits of AbstractEventSource an updateEventSource call can carry
ModeBits == {"Read", "Write", "Exception"}

Modes == SUBSET ModeBits

\* the modes the calls of the explored behaviours pass
CallModes == {{"Read"}, {"Write"}}

\* lines 341-350 with G_IO_ERR left out of what Write asks for
CondWithoutWriteErr(mode) ==
    (IF "Read" \in mode THEN readMask \cup {"ERR"} ELSE {})
    \cup (IF "Write" \in mode THEN writeMask ELSE {})
    \cup (IF "Exception" \in mode THEN excpMask \cup {"ERR"} ELSE {})

\* updateEventSource: the GIOCondition computed from mode
CondOf(mode) ==
    (IF "Read" \in mode THEN readMask \cup {"ERR"} ELSE {})
    \cup (IF "Write" \in mode THEN writeMask \cup {"ERR"} ELSE {})
    \cup (IF "Exception" \in mode THEN excpMask \cup {"ERR"} ELSE {})

(***************************************************************************)
(* Fd source adapters. An adapter is [eventSource, pollfds, leaked].       *)
(* pollfds is the vector of GUnixPollFD [reqEvents, pollfd, tag]. A tag is *)
(* the pointer g_source_add_unix_fd returns: it is modelled by the native  *)
(* watch record it points to, [live, events, revents], and the null tag by *)
(* NullTag. leaked says that the GSource still holds a native watch that   *)
(* no entry points to.                                                     *)
(***************************************************************************)
NullTag == [live |-> FALSE, events |-> {}, revents |-> {}]

\* user code runs outside the loop or inside a callback the loop invoked
UserCode == pc \in {"out", "callback"}

\* std::find_if: the first of the indices that satisfy the test, 0 (end())
\* when there is none
FindIf(hits) ==
    IF hits = {} THEN 0 ELSE CHOOSE i \in hits : \A j \in hits : i <= j

Range(seq) == {seq[i] : i \in 1..Len(seq)}

\* seq without its element at index i
Erase(seq, i) == [j \in 1..(Len(seq) - 1) |-> IF j < i THEN seq[j] ELSE seq[j + 1]]

\* std::find_if over _eventSources for elem->eventSource == notifier
AdapterIdx(srcs, notifier) ==
    FindIf({i \in 1..Len(srcs) : srcs[i].eventSource = notifier})

\* std::find_if over pollfds for pollfd == fd
EntryIdx(pollfds, fd) ==
    FindIf({i \in 1..Len(pollfds) : pollfds[i].pollfd = fd})

\* GAbstractEventSource::create
NewAdapter(notifier) ==
    [eventSource |-> notifier, pollfds |-> <<>>, leaked |-> FALSE]

\* g_source_add_unix_fd: the tag of a new native watch
AddUnixFd(cond) == [live |-> TRUE, events |-> cond, revents |-> {}]

\* g_source_modify_unix_fd; a null tag fails the precondition check and is ignored
ModifyUnixFd(tag, cond) ==
    IF tag /= NullTag THEN [tag EXCEPT !.events = cond] ELSE tag

\* g_source_query_unix_fd
QueryUnixFd(tag) == tag.revents

\* updateEventSource, lines 352-368, with the entry list always appended to
UpsertAlwaysPushes(ad, fd, cond) ==
    [ad EXCEPT !.pollfds = Append(@, [reqEvents |-> cond, pollfd |-> fd,
                                      tag |-> AddUnixFd(cond)])]

\* updateEventSource, lines 352-368: update the entry watching fd or append one
Upsert(ad, fd, cond) ==
    LET it == EntryIdx(ad.pollfds, fd)
    IN IF it /= 0
       THEN [ad EXCEPT !.pollfds[it] = [@ EXCEPT !.reqEvents = cond,
                                                 !.tag = ModifyUnixFd(@, cond)]]
       ELSE [ad EXCEPT !.pollfds = Append(@, [reqEvents |-> cond, pollfd |-> fd,
                                              tag |-> AddUnixFd(cond)])]

\* removeEventSource, lines 391-394 and 399-403: g_source_remove_unix_fd on a
\* tag that is set, then the entry is marked orphaned
Orphaned(e) == [e EXCEPT !.tag = NullTag, !.pollfd = ALL_FDS]

\* lines 399-403 with every entry of the adapter orphaned
OrphanEveryEntry(ad, i) ==
    [ad EXCEPT !.pollfds = [j \in 1..Len(ad.pollfds) |-> Orphaned(ad.pollfds[j])]]

\* removeEventSource, lines 399-403: orphan the entry at index i
OrphanEntry(ad, i) == [ad EXCEPT !.pollfds[i] = Orphaned(@)]

\* removeEventSource, lines 390-395: orphan every entry
OrphanAll(ad) ==
    [ad EXCEPT !.pollfds = [i \in 1..Len(ad.pollfds) |-> Orphaned(ad.pollfds[i])]]

(***************************************************************************)
(* Observations. Every step records what it was in lastOp.                 *)
(***************************************************************************)
Op(name, src, fd, mode, timer, ok, found) ==
    [op |-> name, src |-> src, fd |-> fd, mode |-> mode, timer |-> timer,
     inCb |-> pc = "callback", ok |-> ok, found |-> found, old |-> {}]

\* a call that found something: old is what it found
OpOn(name, src, fd, mode, old) ==
    [op |-> name, src |-> src, fd |-> fd, mode |-> mode, timer |-> "-",
     inCb |-> pc = "callback", ok |-> TRUE, found |-> TRUE, old |-> old]

LoopOp(name) == Op(name, "-", 0, {}, "-", TRUE, FALSE)

SrcRef(kind, id) == [kind |-> kind, id |-> id]

NoCur == [kind |-> "none", id |-> "-", i |-> 0, n |-> 0]

\* the range-for of GAbstractEventSource::dispatch over the pollfds of the
\* adapter of notifier is on the stack
Iterating(notifier) == pc = "callback" /\ cur.kind = "fd" /\ cur.id = notifier

\* the dispatcher check left out
NoWrongDispatcher(notifier) == FALSE

\* notifier->eventDispatcher().lock().get() != this
WrongDispatcher(notifier) == notifier \in ForeignNotifiers

(***************************************************************************)
(* EventDispatcher::updateEventSource                                      *)
(***************************************************************************)
updateEventSource(notifier, fd, mode) ==
    /\ UserCode
    /\ IF WrongDispatcher(notifier)
       THEN /\ lastOp' = Op("updateEventSource", notifier, fd, mode, "-", FALSE, FALSE)
            /\ UNCHANGED <<eventSources, ctxSources, iterInvalid, calls>>
       ELSE LET found == AdapterIdx(eventSources, notifier) /= 0
                evSrcList == IF found THEN eventSources
                             ELSE Append(eventSources, NewAdapter(notifier))
                itToEvSrc == AdapterIdx(evSrcList, notifier)
                evSrc == evSrcList[itToEvSrc]
                pushes == EntryIdx(evSrc.pollfds, fd) = 0
            IN /\ calls < MaxCalls
               /\ calls' = calls + 1
               /\ pushes => Len(evSrc.pollfds) < MaxEntries
               /\ eventSources' = [evSrcList EXCEPT ![itToEvSrc] = Upsert(evSrc, fd, CondOf(mode))]
               /\ ctxSources' = IF found THEN ctxSources
                                ELSE Append(ctxSources, SrcRef("fd", notifier))
               /\ iterInvalid' = (iterInvalid \/ (pushes /\ Iterating(notifier)))
               /\ lastOp' = IF pushes
                            THEN Op("updateEventSource", notifier, fd, mode, "-", TRUE, FALSE)
                            ELSE OpOn("updateEventSource", notifier, fd, mode,
                                      evSrc.pollfds[EntryIdx(evSrc.pollfds, fd)].reqEvents)
    /\ UNCHANGED <<pc, loop, pollTimeout, pending, cur, iter>>
    /\ UNCHANGED <<timerVars, idleVars, lifeVars>>

(***************************************************************************)
(* EventDispatcher::removeEventSource                                      *)
(***************************************************************************)
\* lines 386-405 with the adapter erased from _eventSources on ALL_FDS
RemoveErasesAdapter(srcs, it, fd) ==
    IF fd = ALL_FDS
    THEN Erase(srcs, it)
    ELSE LET fdIt == EntryIdx(srcs[it].pollfds, fd)
         IN IF fdIt /= 0 THEN [srcs EXCEPT ![it] = OrphanEntry(@, fdIt)] ELSE srcs

\* lines 386-405 with every entry orphaned when no entry watches fd
RemoveAllWhenMissing(srcs, it, fd) ==
    IF fd = ALL_FDS \/ EntryIdx(srcs[it].pollfds, fd) = 0
    THEN [srcs EXCEPT ![it] = OrphanAll(@)]
    ELSE [srcs EXCEPT ![it] = OrphanEntry(@, EntryIdx(srcs[it].pollfds, fd))]

\* lines 384-405: what the call does to _eventSources once the adapter is found
RemoveFromAdapter(srcs, it, fd) ==
    IF fd = ALL_FDS
    THEN [srcs EXCEPT ![it] = OrphanAll(@)]
    ELSE LET fdIt == EntryIdx(srcs[it].pollfds, fd)
         IN IF fdIt /= 0 THEN [srcs EXCEPT ![it] = OrphanEntry(@, fdIt)] ELSE srcs

\* the range-for of dispatch() goes on over the buffer that a push_back has
\* freed: an entry that is orphaned from then on is orphaned in the new
\* buffer only, the freed one keeps the copy with the descriptor and the tag.
\* The copies a call leaves behind, as [i, pollfd, reqEvents], for the
\* entries the loop has still to visit
StaleCopies(old, new) ==
    {[i |-> i, pollfd |-> old[i].pollfd, reqEvents |-> old[i].reqEvents] :
        i \in {j \in 1..Len(old) :
                  /\ j > cur.i
                  /\ j <= cur.n
                  /\ old[j].tag /= NullTag
                  /\ new[j].tag = NullTag}}

removeEventSource(notifier, fd) ==
    /\ UserCode
    /\ IF WrongDispatcher(notifier)
       THEN /\ lastOp' = Op("removeEventSource", notifier, fd, {}, "-", FALSE, FALSE)
            /\ UNCHANGED <<eventSources, calls, iter>>
       ELSE LET it == AdapterIdx(eventSources, notifier)
            IN /\ calls < MaxCalls
               /\ calls' = calls + 1
               /\ eventSources' = IF it = 0 THEN eventSources
                                  ELSE RemoveFromAdapter(eventSources, it, fd)
               /\ iter' = IF it /= 0 /\ iterInvalid /\ Iterating(notifier)
                          THEN [iter EXCEPT !.stale =
                                   @ \cup StaleCopies(eventSources[it].pollfds,
                                                      eventSources'[it].pollfds)]
                          ELSE iter
               /\ lastOp' = IF it = 0
                            THEN Op("removeEventSource", notifier, fd, {}, "-", TRUE, FALSE)
                            ELSE OpOn("removeEventSource", notifier, fd, {},
                                      {e.pollfd : e \in {x \in Range(eventSources[it].pollfds) :
                                                            x.tag /= NullTag
                                                            /\ (fd = ALL_FDS \/ x.pollfd = fd)}})
    /\ UNCHANGED <<ctxSources, pc, loop, pollTimeout, pending, cur, iterInvalid>>
    /\ UNCHANGED <<timerVars, idleVars, lifeVars>>

(***************************************************************************)
(* EventDispatcher::registerTimer / removeTimer / runningTimers            *)
(***************************************************************************)
\* the search for the adapter of a Timer never finding one
TimerNotFound(timers, timer) == 0

\* registerTimer, lines 412-415, and removeTimer, lines 427-429: the search
\* of _runningTimers for the adapter of timer
TimerIdx(timers, timer) ==
    FindIf({i \in 1..Len(timers) : timers[i] = timer})

\* seq without the elements equal to x
Without(seq, x) ==
    LET Keep(e) == e /= x IN SelectSeq(seq, Keep)

\* the Timer reports rem when it registers itself
registerTimer(timer, rem) ==
    /\ UserCode
    /\ calls < MaxCalls
    /\ calls' = calls + 1
    /\ IF TimerIdx(runningTimers, timer) /= 0
       THEN /\ lastOp' = Op("registerTimer", "-", 0, {}, timer, TRUE, TRUE)
            /\ UNCHANGED <<runningTimers, remaining, ctxSources>>
       ELSE /\ runningTimers' = Append(runningTimers, timer)
            /\ remaining' = [remaining EXCEPT ![timer] = rem]
            /\ ctxSources' = Append(ctxSources, SrcRef("timer", timer))
            /\ lastOp' = Op("registerTimer", "-", 0, {}, timer, TRUE, FALSE)
    /\ UNCHANGED <<pc, loop, pollTimeout, pending, cur, iterInvalid, iter>>
    /\ UNCHANGED <<eventSources, idleVars, lifeVars>>

\* lines 431-435 with the adapter left in _runningTimers until a later pass
RemoveTimerDeferred(timers, it) == timers

\* lines 431-435: _runningTimers after erase( it )
RemoveTimerErase(timers, it) == Erase(timers, it)

\* GLibTimerSource::destruct: g_source_destroy takes the source out of the
\* context; a destroyed source that is pending is not dispatched any more.
\* remaining() of a Timer that is not registered is never read: it is kept 0.
removeTimer(timer) ==
    /\ UserCode
    /\ calls < MaxCalls
    /\ calls' = calls + 1
    /\ LET it == TimerIdx(runningTimers, timer)
       IN IF it /= 0
          THEN /\ runningTimers' = RemoveTimerErase(runningTimers, it)
               /\ remaining' = [remaining EXCEPT ![timer] = 0]
               /\ ctxSources' = IF TimerIdx(runningTimers', timer) = 0
                                THEN Without(ctxSources, SrcRef("timer", timer))
                                ELSE ctxSources
               /\ pending' = IF TimerIdx(runningTimers', timer) = 0
                             THEN Without(pending, SrcRef("timer", timer))
                             ELSE pending
               /\ iter' = IF pc = "callback" THEN [iter EXCEPT !.removed = @ \cup {timer}] ELSE iter
               /\ lastOp' = Op("removeTimer", "-", 0, {}, timer, TRUE, TRUE)
          ELSE /\ lastOp' = Op("removeTimer", "-", 0, {}, timer, TRUE, FALSE)
               /\ UNCHANGED <<runningTimers, remaining, ctxSources, pending, iter>>
    /\ UNCHANGED <<pc, loop, pollTimeout, cur, iterInvalid>>
    /\ UNCHANGED <<eventSources, idleVars, lifeVars>>

runningTimersCount == Len(runningTimers)

(***************************************************************************)
(* Idle callbacks and deferred release.                                    *)
(* An idle callback is one enqueued std::function, named by a number; it   *)
(* returns true idleObs.budget[f] more times and then false.               *)
(***************************************************************************)
\* the largest number of times an idle callback returns true
MaxTrue == 3

\* idle callbacks are numbered in the order they are enqueued
IdleFnIds == 1..(MaxCalls + 1)

\* runIdleTasks() is on the stack
InIdlePass == pc = "idleloop" \/ (pc = "callback" /\ cur.kind = "idle")

\* EventDispatcherPrivate::enableIdleSource: attach when _idleSource->context
\* is null; GLib sets context on attach and leaves it set when the source is
\* destroyed
EnableIdleSource(src) == IF src = "new" THEN "attached" ELSE src

\* EventDispatcher::invokeOnIdleImpl; trues: how often the callback will return true
invokeOnIdle(trues) ==
    /\ UserCode
    /\ calls < MaxCalls
    /\ calls' = calls + 1
    /\ idleFuncs' = Append(idleFuncs, idleObs.next)
    /\ idleSource' = EnableIdleSource(idleSource)
    /\ idleObs' = [idleObs EXCEPT !.next = @ + 1,
                                  !.budget[idleObs.next] = trues,
                                  !.k0[idleObs.next] = trues,
                                  !.enqThis = IF InIdlePass THEN @ \cup {idleObs.next} ELSE @]
    /\ lastOp' = Op("invokeOnIdle", "-", idleObs.next, {}, "-", TRUE, FALSE)
    /\ UNCHANGED <<rerunQueue, unrefLater, ctxSources, iter>>
    /\ UNCHANGED <<loopVars, eventSources, timerVars, lifeVars>>

\* EventDispatcher::unrefLaterImpl
unrefLaterCall ==
    /\ UserCode
    /\ calls < MaxCalls
    /\ calls' = calls + 1
    /\ unrefLater' = Append(unrefLater, idleObs.nextObj)
    /\ idleSource' = EnableIdleSource(idleSource)
    /\ idleObs' = [idleObs EXCEPT !.nextObj = @ + 1]
    /\ lastOp' = Op("unrefLater", "-", idleObs.nextObj, {}, "-", TRUE, FALSE)
    /\ UNCHANGED <<idleFuncs, rerunQueue, ctxSources, iter>>
    /\ UNCHANGED <<loopVars, eventSources, timerVars, lifeVars>>

\* runIdleTasks, line 276, with the loop left at once
LoopDoneAtOnce(funcs) == TRUE

\* runIdleTasks, line 276: the while loop is left when _idleFuncs is empty
LoopDone(funcs) == Len(funcs) = 0

\* runIdleTasks, lines 276-278: take the front callback and call it
IdleInvoke ==
    /\ pc = "idleloop"
    /\ ~LoopDone(idleFuncs)
    /\ LET fun == Head(idleFuncs)
       IN /\ idleFuncs' = Tail(idleFuncs)
          /\ cur' = [kind |-> "idle", id |-> "-", i |-> fun, n |-> 0]
          /\ idleObs' = [idleObs EXCEPT !.count[fun] = @ + 1,
                                        !.span[fun] = IF idleObs.count[fun] = 0 THEN 1 ELSE @]
          /\ lastOp' = Op("idleFn", "-", fun, {}, "-", TRUE, FALSE)
    /\ pc' = "callback"
    /\ UNCHANGED <<idleSource, rerunQueue, unrefLater, ctxSources, iter>>
    /\ UNCHANGED <<loop, pollTimeout, pending, iterInvalid>>
    /\ UNCHANGED <<fdVars, timerVars, lifeVars>>

\* runIdleTasks, lines 279-280: the callback returns; true puts it on rerunQueue
idleFnReturn ==
    /\ pc = "callback"
    /\ cur.kind = "idle"
    /\ LET fun == cur.i
           again == idleObs.budget[fun] > 0
       IN /\ rerunQueue' = IF again THEN Append(rerunQueue, fun) ELSE rerunQueue
          /\ idleObs' = [idleObs EXCEPT !.budget[fun] = IF again THEN @ - 1 ELSE @,
                                        !.done = IF again THEN @ ELSE @ \cup {fun}]
    /\ pc' = "idleloop"
    /\ cur' = NoCur
    /\ lastOp' = LoopOp("idleFnReturn")
    /\ UNCHANGED <<idleSource, idleFuncs, unrefLater, ctxSources, iter>>
    /\ UNCHANGED <<loop, pollTimeout, pending, iterInvalid>>
    /\ UNCHANGED <<fdVars, timerVars, lifeVars>>

\* runIdleTasks, lines 282-283 with the swap left out
SwapDropsRerun(funcs, rerun) == funcs

\* runIdleTasks, lines 282-283: _idleFuncs after the conditional swap
SwapRerun(funcs, rerun) == IF rerun /= <<>> THEN rerun ELSE funcs

\* runIdleTasks, lines 287-288 with the list left alone
KeepUnrefLater(list) == list

\* runIdleTasks, lines 287-288: _unrefLater after the pass
ClearUnrefLater(list) == <<>>

\* runIdleTasks, lines 282-290, and eventLoopIdleFunc: the pass ends; GLib
\* destroys the idle source when the callback returns G_SOURCE_REMOVE
IdleEnd ==
    /\ pc = "idleloop"
    /\ LoopDone(idleFuncs)
    /\ idleFuncs' = SwapRerun(idleFuncs, rerunQueue)
    /\ rerunQueue' = <<>>
    /\ unrefLater' = ClearUnrefLater(unrefLater)
    /\ idleSource' = IF Len(idleFuncs') /= 0 \/ Len(unrefLater') /= 0
                     THEN idleSource ELSE "destroyed"
    /\ idleObs' = [idleObs EXCEPT
                      !.released = @ \cup (Range(unrefLater) \ Range(unrefLater')),
                      !.enqThis = {}]
    /\ pc' = "dispatch"
    /\ lastOp' = LoopOp("idleEnd")
    /\ UNCHANGED <<ctxSources, iter>>
    /\ UNCHANGED <<loop, pollTimeout, pending, cur, iterInvalid>>
    /\ UNCHANGED <<fdVars, timerVars, lifeVars>>

(***************************************************************************)
(* One iteration of the GMainContext: prepare, poll, check, dispatch.      *)
(* Fd adapters and timers are default-priority sources, dispatched in      *)
(* attach order; the idle source has idle priority and is dispatched only  *)
(* in an iteration in which no default-priority source is ready.           *)
(***************************************************************************)
G_MAXINT == 2147483647

MinOf(S) == CHOOSE x \in S : \A y \in S : x <= y

Max(a, b) == IF a >= b THEN a ELSE b

IdleRef == SrcRef("idle", "-")

\* GLibTimerSource::prepare with the result never true
TimerNeverReady(r) == FALSE

\* GLibTimerSource::prepare with the timeout always written as 0
TimerTimeoutZero(r) == 0

\* GLibTimerSource::prepare: the timeout written for a Timer with remaining() = r
TimerTimeout(r) == IF r > G_MAXINT THEN G_MAXINT ELSE r

\* GLibTimerSource::prepare / check: the result
TimerReady(r) == r = 0

\* the sources prepare() flags ready: GAbstractEventSource::prepare never does
PreparedReady ==
    LET IsDue(s) == s.kind = "timer" /\ TimerReady(remaining[s.id])
        due == SelectSeq(ctxSources, IsDue)
    IN IF due /= <<>> THEN due
       ELSE IF idleSource = "attached" THEN <<IdleRef>> ELSE <<>>

\* the timeout g_main_context_iterate polls with; -1 is no timeout
PollTimeoutOf(mayBlock) ==
    IF ~mayBlock \/ PreparedReady /= <<>> THEN 0
    ELSE IF runningTimers = <<>> THEN -1
    ELSE MinOf({TimerTimeout(remaining[t]) : t \in Range(runningTimers)})

BeginIteration(call, mayBlock, n, quitSeen) ==
    /\ pc' = "poll"
    /\ pending' = PreparedReady
    /\ pollTimeout' = PollTimeoutOf(mayBlock)
    /\ iter' = [call |-> call, n |-> n, quit |-> quitSeen,
                due |-> {t \in Range(runningTimers) : remaining[t] = 0},
                sole50 |-> IF Len(runningTimers) = 1 /\ remaining[runningTimers[1]] = 50
                           THEN runningTimers[1] ELSE "-",
                expired |-> {}, removed |-> {}, waited |-> 0, fdReady |-> FALSE,
                otherReady |-> FALSE, orphaned |-> {}, stale |-> {}]

\* iterations counted in one run() call
MaxIterCount == 2

\* run_once with the iteration allowed to block
MayBlockTrue == TRUE

\* EventDispatcher::run_once: the may_block argument of g_main_context_iteration
RunOnceMayBlock == FALSE

run_once ==
    /\ pc = "out"
    /\ loop' = [loop EXCEPT !.inRun = FALSE, !.mayBlock = RunOnceMayBlock]
    /\ BeginIteration("run_once", RunOnceMayBlock, 1, FALSE)
    /\ lastOp' = LoopOp("run_once")
    /\ UNCHANGED <<cur, iterInvalid, ctxSources>>
    /\ UNCHANGED <<fdVars, timerVars, idleVars, lifeVars>>

\* EventDispatcher::run: g_main_loop_run sets is_running and iterates, blocking
run ==
    /\ pc = "out"
    /\ loop' = [inRun |-> TRUE, isRunning |-> TRUE, mayBlock |-> TRUE]
    /\ BeginIteration("run", TRUE, 1, FALSE)
    /\ lastOp' = LoopOp("run")
    /\ UNCHANGED <<cur, iterInvalid, ctxSources>>
    /\ UNCHANGED <<fdVars, timerVars, idleVars, lifeVars>>

\* EventDispatcher::quit: g_main_loop_quit clears is_running
quit ==
    /\ UserCode
    /\ loop' = [loop EXCEPT !.isRunning = FALSE]
    /\ iter' = IF loop.inRun THEN [iter EXCEPT !.quit = TRUE] ELSE iter
    /\ lastOp' = Op("quit", "-", 0, {}, "-", TRUE, FALSE)
    /\ UNCHANGED <<pc, pollTimeout, pending, cur, iterInvalid, ctxSources>>
    /\ UNCHANGED <<fdVars, timerVars, idleVars, lifeVars>>

\* the native watches entries point to: <<adapter index, entry index>>
Watches ==
    {w \in (1..Len(eventSources)) \X (1..MaxEntries) :
        /\ w[2] <= Len(eventSources[w[1]].pollfds)
        /\ eventSources[w[1]].pollfds[w[2]].tag /= NullTag}

ReadyBits == {"IN", "OUT", "PRI"}

\* what poll() reports for a watch with the given events in the explored
\* behaviours: nothing, the requested readiness bits, or a condition it
\* reports whether requested or not (hangup, invalid descriptor)
ObservedChoices(events) ==
    {{}, {"HUP"}, {"NVAL"}} \cup {events \cap ReadyBits}

ObsUniverse == UNION {ObservedChoices(CondOf(m)) : m \in Modes}

\* what poll() can report for a watch with the given events when every
\* condition is told apart: nothing, an invalid descriptor, any one of the
\* requested bits or of hangup and error (reported whether requested or not),
\* or all of them together
AnyObserved(events) ==
    LET can == events \cup {"HUP", "ERR"}
    IN {{}, {"NVAL"}, can} \cup {{b} : b \in can}

AnyObsUniverse == UNION {AnyObserved(CondOf(m)) : m \in Modes}

\* eventSources with the revents of every native watch set from rv
WithRevents(srcs, rv) ==
    [a \in 1..Len(srcs) |->
        [srcs[a] EXCEPT !.pollfds =
            [i \in 1..Len(srcs[a].pollfds) |->
                IF srcs[a].pollfds[i].tag /= NullTag
                THEN [srcs[a].pollfds[i] EXCEPT !.tag.revents = rv[<<a, i>>]]
                ELSE srcs[a].pollfds[i]]]]

\* the native poll: it returns when a watched descriptor reports something
\* (here: at once or at the timeout) or when the timeout has passed; the
\* time waited is time the registered Timers see pass. A leaked watch is the
\* watch of a descriptor that was reported invalid: it can end the wait too.
\* any: every condition is told apart (AnyObserved) or not (ObservedChoices)
PollObserving(any) ==
    /\ pc = "poll"
    /\ \E rv \in [Watches -> IF any THEN AnyObsUniverse ELSE ObsUniverse],
          leakReports \in BOOLEAN :
         /\ \A w \in Watches :
              rv[w] \in IF any
                        THEN AnyObserved(eventSources[w[1]].pollfds[w[2]].tag.events)
                        ELSE ObservedChoices(eventSources[w[1]].pollfds[w[2]].tag.events)
         /\ leakReports => \E a \in 1..Len(eventSources) : eventSources[a].leaked
         /\ LET fdReady == leakReports \/ \E w \in Watches : rv[w] /= {}
            IN \E waited \in {0, Max(pollTimeout, 0)} :
                 /\ fdReady \/ (pollTimeout >= 0 /\ waited = pollTimeout)
                 /\ eventSources' = WithRevents(eventSources, rv)
                 /\ remaining' = [t \in Timers |-> Max(remaining[t] - waited, 0)]
                 /\ iter' = [iter EXCEPT !.waited = waited, !.fdReady = fdReady]
    /\ pc' = "check"
    /\ lastOp' = LoopOp("poll")
    /\ UNCHANGED <<runningTimers, ctxSources, loop, pollTimeout, pending, cur, iterInvalid, calls>>
    /\ UNCHANGED <<idleVars, lifeVars>>

Poll == PollObserving(FALSE)

PollAny == PollObserving(TRUE)

\* GAbstractEventSource::check with only the orphaned entries erased
SweepOrphansOnly(ad) ==
    LET Keep(e) == e.tag /= NullTag
    IN [ad EXCEPT !.pollfds = SelectSeq(@, Keep)]

\* GAbstractEventSource::check with nothing erased
SweepNothing(ad) == ad

\* GAbstractEventSource::check, lines 82-98: the pollfds left after the sweep;
\* the native watch of an entry erased for G_IO_NVAL is not removed
CheckSweep(ad) ==
    LET Keep(e) == e.tag /= NullTag /\ "NVAL" \notin QueryUnixFd(e.tag)
    IN [ad EXCEPT !.pollfds = SelectSeq(@, Keep),
                  !.leaked = @ \/ \E i \in 1..Len(ad.pollfds) :
                                     /\ ad.pollfds[i].tag /= NullTag
                                     /\ "NVAL" \in QueryUnixFd(ad.pollfds[i].tag)]

\* GAbstractEventSource::check, lines 94 and 101, on the swept adapter
CheckResult(ad) ==
    \/ \E i \in 1..Len(ad.pollfds) :
          QueryUnixFd(ad.pollfds[i].tag) \cap ad.pollfds[i].reqEvents /= {}
    \/ ad.pollfds = <<>>

\* every entry of the adapter is orphaned: the sweep of lines 82-98 leaves none
AllOrphaned(ad) ==
    /\ ad.pollfds /= <<>>
    /\ \A i \in 1..Len(ad.pollfds) : ad.pollfds[i].tag = NullTag

\* g_main_context_check: the sources to dispatch, given the swept adapters
PendingAfterCheck(srcs) ==
    LET IsReady(s) ==
            \/ s.kind = "timer" /\ (s \in Range(pending) \/ TimerReady(remaining[s.id]))
            \/ s.kind = "fd" /\ CheckResult(srcs[AdapterIdx(srcs, s.id)])
        ready == SelectSeq(ctxSources, IsReady)
    IN IF ready /= <<>> THEN ready
       ELSE IF idleSource = "attached" THEN <<IdleRef>> ELSE <<>>

Check ==
    /\ pc = "check"
    /\ eventSources' = [a \in 1..Len(eventSources) |-> CheckSweep(eventSources[a])]
    /\ pending' = PendingAfterCheck(eventSources')
    /\ iter' = [iter EXCEPT !.otherReady =
                                \E i \in 1..Len(pending') : pending'[i].kind /= "timer",
                             !.orphaned =
                                {eventSources[a].eventSource :
                                    a \in {x \in 1..Len(eventSources) :
                                              AllOrphaned(eventSources[x])}}]
    /\ pc' = "dispatch"
    /\ lastOp' = LoopOp("check")
    /\ UNCHANGED <<calls, ctxSources, loop, pollTimeout, cur, iterInvalid>>
    /\ UNCHANGED <<timerVars, idleVars, lifeVars>>

(***************************************************************************)
(* Dispatch.                                                               *)
(***************************************************************************)
\* GAbstractEventSource::dispatch, lines 114-122: an adapter with no entry
\* is destructed and erased from _eventSources before any entry is visited
DispatchFd ==
    /\ pc = "dispatch"
    /\ pending /= <<>>
    /\ Head(pending).kind = "fd"
    /\ LET src == Head(pending).id
           it == AdapterIdx(eventSources, src)
       IN IF eventSources[it].pollfds = <<>>
          THEN /\ eventSources' = Erase(eventSources, it)
               /\ ctxSources' = Without(ctxSources, Head(pending))
               /\ lastOp' = Op("destructAdapter", src, 0, {}, "-", TRUE, TRUE)
               /\ UNCHANGED <<pc, cur>>
          ELSE /\ pc' = "fdloop"
               /\ cur' = [kind |-> "fd", id |-> src, i |-> 1,
                          n |-> Len(eventSources[it].pollfds)]
               /\ lastOp' = LoopOp("dispatchFd")
               /\ UNCHANGED <<eventSources, ctxSources>>
    /\ pending' = Tail(pending)
    /\ UNCHANGED <<calls, loop, pollTimeout, iterInvalid, iter>>
    /\ UNCHANGED <<timerVars, idleVars, lifeVars>>

\* GAbstractEventSource::dispatch, lines 130-138: the events handed to onFdReady
EventMask(pendEvents, reqEvents) ==
    (IF pendEvents \cap readMask /= {} /\ reqEvents \cap readMask /= {}
        THEN {"Read"} ELSE {})
    \cup (IF pendEvents \cap writeMask /= {} /\ reqEvents \cap writeMask /= {}
        THEN {"Write"} ELSE {})
    \cup (IF pendEvents \cap excpMask /= {} /\ reqEvents \cap excpMask /= {}
        THEN {"Exception"} ELSE {})
    \cup (IF "ERR" \in pendEvents /\ "ERR" \in reqEvents THEN {"Error"} ELSE {})

\* lines 126-129 with any observed condition taken for a requested one
TriggeredOnAnyCondition(ad, e) ==
    /\ e.tag /= NullTag
    /\ QueryUnixFd(e.tag) /= {}

\* GAbstractEventSource::dispatch, lines 126-129: the entry is triggered
Triggered(ad, e) ==
    /\ e.tag /= NullTag
    /\ QueryUnixFd(e.tag) \cap e.reqEvents /= {}

\* GAbstractEventSource::dispatch, lines 124-145: one turn of the range-for,
\* which runs from the begin to the end iterator taken when the loop started
FdLoop ==
    /\ pc = "fdloop"
    /\ LET ad == eventSources[AdapterIdx(eventSources, cur.id)]
       IN IF cur.i > cur.n
          THEN /\ pc' = "dispatch"
               /\ cur' = NoCur
               /\ iterInvalid' = FALSE
               /\ lastOp' = LoopOp("dispatchFdDone")
          ELSE IF Triggered(ad, ad.pollfds[cur.i])
          THEN /\ pc' = "callback"
               /\ lastOp' = Op("onFdReady", cur.id, ad.pollfds[cur.i].pollfd,
                               EventMask(QueryUnixFd(ad.pollfds[cur.i].tag),
                                         ad.pollfds[cur.i].reqEvents),
                               "-", TRUE, TRUE)
               /\ UNCHANGED <<cur, iterInvalid>>
          ELSE /\ cur' = [cur EXCEPT !.i = @ + 1]
               /\ lastOp' = LoopOp("skipEntry")
               /\ UNCHANGED <<pc, iterInvalid>>
    /\ UNCHANGED <<calls, eventSources, ctxSources, loop, pollTimeout, pending, iter>>
    /\ UNCHANGED <<timerVars, idleVars, lifeVars>>

\* the range-for goes on with iterators that a push_back inside onFdReady
\* invalidated: undefined behaviour, one outcome of which is a crash (the
\* other, going on over the entries, is FdLoop)
FdLoopCrash ==
    /\ pc = "fdloop"
    /\ iterInvalid
    /\ pc' = "crashed"
    /\ lastOp' = LoopOp("crash")
    /\ UNCHANGED <<calls, eventSources, ctxSources, loop, pollTimeout, pending, cur, iterInvalid, iter>>
    /\ UNCHANGED <<timerVars, idleVars, lifeVars>>

\* the range-for goes on with the invalidated iterators and reads the entry
\* from the freed buffer: the copy of an entry orphaned after the push_back
\* still has its descriptor and its tag, whose native watch is freed as
\* well; what the query of that tag reports is whatever the freed memory
\* holds, and onFdReady is called when it meets the requested mask
FdLoopStale ==
    /\ pc = "fdloop"
    /\ iterInvalid
    /\ cur.i <= cur.n
    /\ \E st \in iter.stale, pendEvents \in ObsUniverse :
          /\ st.i = cur.i
          /\ pendEvents \in ObservedChoices(st.reqEvents)
          /\ pendEvents \cap st.reqEvents /= {}
          /\ lastOp' = Op("onFdReady", cur.id, st.pollfd,
                          EventMask(pendEvents, st.reqEvents), "-", TRUE, FALSE)
    /\ pc' = "callback"
    /\ UNCHANGED <<calls, eventSources, ctxSources, loop, pollTimeout, pending, cur, iterInvalid, iter>>
    /\ UNCHANGED <<timerVars, idleVars, lifeVars>>

\* onFdReady returns into the range-for
onFdReadyReturn ==
    /\ pc = "callback"
    /\ cur.kind = "fd"
    /\ pc' = "fdloop"
    /\ cur' = [cur EXCEPT !.i = @ + 1]
    /\ lastOp' = LoopOp("onFdReadyReturn")
    /\ UNCHANGED <<calls, eventSources, ctxSources, loop, pollTimeout, pending, iterInvalid, iter>>
    /\ UNCHANGED <<timerVars, idleVars, lifeVars>>

\* GLibTimerSource::dispatch: source->_t->expire()
DispatchTimer ==
    /\ pc = "dispatch"
    /\ pending /= <<>>
    /\ Head(pending).kind = "timer"
    /\ pc' = "callback"
    /\ cur' = [kind |-> "timer", id |-> Head(pending).id, i |-> 0, n |-> 0]
    /\ pending' = Tail(pending)
    /\ iter' = [iter EXCEPT !.expired = @ \cup {Head(pending).id}]
    /\ lastOp' = Op("expire", "-", 0, {}, Head(pending).id, TRUE, TRUE)
    /\ UNCHANGED <<ctxSources, loop, pollTimeout, iterInvalid>>
    /\ UNCHANGED <<fdVars, timerVars, idleVars, lifeVars>>

\* Timer::expire returns: a Timer that is still registered has rearmed itself
\* and reports rem from now on
expireReturn(rem) ==
    /\ pc = "callback"
    /\ cur.kind = "timer"
    /\ remaining' = IF TimerIdx(runningTimers, cur.id) /= 0
                    THEN [remaining EXCEPT ![cur.id] = rem] ELSE remaining
    /\ pc' = "dispatch"
    /\ cur' = NoCur
    /\ lastOp' = LoopOp("expireReturn")
    /\ UNCHANGED <<runningTimers, ctxSources, loop, pollTimeout, pending, iterInvalid, iter>>
    /\ UNCHANGED <<fdVars, idleVars, lifeVars>>

\* eventLoopIdleFunc: the idle source is dispatched, runIdleTasks starts
DispatchIdle ==
    /\ pc = "dispatch"
    /\ pending /= <<>>
    /\ Head(pending) = IdleRef
    /\ pc' = "idleloop"
    /\ pending' = Tail(pending)
    /\ idleObs' = [idleObs EXCEPT !.span =
                      [f \in IdleFnIds |->
                          IF idleObs.count[f] > 0 /\ f \notin idleObs.done
                          THEN idleObs.span[f] + 1 ELSE idleObs.span[f]]]
    /\ lastOp' = LoopOp("idlePass")
    /\ UNCHANGED <<idleSource, idleFuncs, rerunQueue, unrefLater>>
    /\ UNCHANGED <<ctxSources, loop, pollTimeout, cur, iterInvalid, iter>>
    /\ UNCHANGED <<fdVars, timerVars, lifeVars>>

BlankIter ==
    [call |-> "none", n |-> 0, quit |-> FALSE, due |-> {}, sole50 |-> "-",
     expired |-> {}, removed |-> {}, waited |-> 0, fdReady |-> FALSE,
     otherReady |-> FALSE, orphaned |-> {}, stale |-> {}]

\* the revents of a watch are written by the next poll before they are read
\* again: they are cleared when the iteration is over
ClearRevents(srcs) == WithRevents(srcs, [w \in Watches |-> {}])

\* g_main_loop_run with the loop left after the first iteration
RunStopsAfterOne(inRun, isRunning) == FALSE

\* g_main_loop_run: the loop goes on while is_running is set
RunContinues(inRun, isRunning) == inRun /\ isRunning

\* the iteration is over: run() goes on with the next one while is_running
\* is set, run_once() returns
IterationEnd ==
    /\ pc = "dispatch"
    /\ pending = <<>>
    /\ eventSources' = ClearRevents(eventSources)
    /\ IF RunContinues(loop.inRun, loop.isRunning)
       THEN /\ BeginIteration("run", TRUE, IF iter.n < MaxIterCount THEN iter.n + 1 ELSE iter.n,
                              iter.quit)
            /\ lastOp' = LoopOp("iterate")
            /\ UNCHANGED loop
       ELSE /\ pc' = "out"
            /\ pending' = <<>>
            /\ pollTimeout' = 0
            /\ iter' = BlankIter
            /\ loop' = [inRun |-> FALSE, isRunning |-> FALSE, mayBlock |-> FALSE]
            /\ lastOp' = LoopOp("return")
    /\ UNCHANGED <<calls, cur, iterInvalid, ctxSources>>
    /\ UNCHANGED <<timerVars, idleVars, lifeVars>>

(***************************************************************************)
(* The dispatcher after construction, and the specifications.              *)
(***************************************************************************)
ReactorInit ==
    /\ eventSources = <<>>
    /\ runningTimers = <<>>
    /\ remaining = [t \in Timers |-> 0]
    /\ ctxSources = <<>>
    /\ idleSource = "new"
    /\ idleFuncs = <<>>
    /\ rerunQueue = <<>>
    /\ unrefLater = <<>>
    /\ pc = "out"
    /\ loop = [inRun |-> FALSE, isRunning |-> FALSE, mayBlock |-> FALSE]
    /\ pollTimeout = 0
    /\ pending = <<>>
    /\ cur = NoCur
    /\ iterInvalid = FALSE
    /\ calls = 0
    /\ lastOp = [op |-> "init", src |-> "-", fd |-> 0, mode |-> {}, timer |-> "-",
                 inCb |-> FALSE, ok |-> TRUE, found |-> FALSE, old |-> {}]
    /\ iter = BlankIter
    /\ idleObs = [next |-> 1, nextObj |-> 1,
                  budget |-> [f \in IdleFnIds |-> 0],
                  k0 |-> [f \in IdleFnIds |-> 0],
                  count |-> [f \in IdleFnIds |-> 0],
                  span |-> [f \in IdleFnIds |-> 0],
                  done |-> {}, enqThis |-> {}, released |-> {}]

LifeInit ==
    /\ threadDispatch = [t \in Threads |-> NoReactor]
    /\ live = {}
    /\ myThreadId = [r \in ReactorIds |-> "none"]
    /\ nextReactor = 1
    /\ lifeEvt = [op |-> "none", thread |-> "none", reactor |-> NoReactor,
                  ok |-> TRUE, hadLive |-> FALSE]

Init == LifeInit /\ ReactorInit

\* one live dispatcher on its thread
IterationSteps ==
    \/ run_once
    \/ Poll
    \/ Check
    \/ IterationEnd

LoopSteps ==
    \/ IterationSteps
    \/ run
    \/ quit

FdSteps ==
    \/ \E s \in Notifiers, fd \in FDs, m \in CallModes : updateEventSource(s, fd, m)
    \/ \E s \in Notifiers, fd \in FDs \cup {ALL_FDS} : removeEventSource(s, fd)
    \/ \E s \in ForeignNotifiers : updateEventSource(s, 4, {"Read"})
    \/ \E s \in ForeignNotifiers : removeEventSource(s, ALL_FDS)
    \/ DispatchFd
    \/ FdLoop
    \/ FdLoopCrash
    \/ onFdReadyReturn

TimerSteps ==
    \/ \E t \in Timers, r \in Remainings : registerTimer(t, r)
    \/ \E t \in Timers : removeTimer(t)
    \/ DispatchTimer
    \/ \E r \in Remainings : expireReturn(r)

IdleSteps ==
    \/ \E k \in 0..MaxTrue : invokeOnIdle(k)
    \/ unrefLaterCall
    \/ DispatchIdle
    \/ IdleInvoke
    \/ idleFnReturn
    \/ IdleEnd

FdNext == IterationSteps \/ FdSteps

TimerNext == LoopSteps \/ TimerSteps

IdleNext == LoopSteps \/ IdleSteps

Next == LoopSteps \/ FdSteps \/ TimerSteps \/ IdleSteps

\* the steps of fd sources and timers together, with one descriptor and one
\* mode for every event source
FdTimerSteps ==
    \/ \E s \in Notifiers : updateEventSource(s, 4, {"Read"})
    \/ \E s \in Notifiers, fd \in {4, ALL_FDS} : removeEventSource(s, fd)
    \/ DispatchFd
    \/ FdLoop
    \/ FdLoopCrash
    \/ onFdReadyReturn
    \/ TimerSteps

LoopNext == LoopSteps \/ FdTimerSteps

SpecLoop == Init /\ [][LoopNext]_vars

\* the steps of one event source watching two descriptors in any mode and a
\* third one for reading, with every native condition told apart by the poll
DispatchSteps ==
    \/ run_once
    \/ PollAny
    \/ Check
    \/ IterationEnd
    \/ \E fd \in FDs, m \in Modes : updateEventSource("S1", fd, m)
    \/ updateEventSource("S1", 6, {"Read"})
    \/ \E fd \in FDs \cup {ALL_FDS} : removeEventSource("S1", fd)
    \/ DispatchFd
    \/ FdLoop
    \/ FdLoopCrash
    \/ onFdReadyReturn

SpecDispatch == Init /\ [][DispatchSteps]_vars

\* the calls of one event source for two descriptors, in every mode
MaskSteps ==
    \/ \E fd \in FDs, m \in Modes : updateEventSource("S1", fd, m)
    \/ \E fd \in FDs : removeEventSource("S1", fd)

SpecMask == Init /\ [][MaskSteps]_vars

\* g_main_context_iteration goes on by itself and callbacks return; what a
\* callback calls before it returns is up to it
LoopFairness ==
    /\ WF_vars(Poll)
    /\ WF_vars(Check)
    /\ WF_vars(DispatchFd)
    /\ WF_vars(FdLoop)
    /\ WF_vars(onFdReadyReturn)
    /\ WF_vars(DispatchTimer)
    /\ WF_vars(\E r \in Remainings : expireReturn(r))
    /\ WF_vars(IterationEnd)

SpecLoopFair == SpecLoop /\ LoopFairness

\* the Reactor keeps iterating: runOnce() is called again and again, the
\* iteration goes on by itself and idle callbacks return
IdleFairness ==
    /\ WF_vars(run_once)
    /\ WF_vars(Poll)
    /\ WF_vars(Check)
    /\ WF_vars(DispatchIdle)
    /\ WF_vars(IdleInvoke)
    /\ WF_vars(idleFnReturn)
    /\ WF_vars(IdleEnd)
    /\ WF_vars(IterationEnd)

SpecFd == Init /\ [][FdNext]_vars

SpecTimer == Init /\ [][TimerNext]_vars

SpecIdle == Init /\ [][IdleNext]_vars

SpecIdleFair == SpecIdle /\ IdleFairness

Spec == Init /\ [][Next]_vars

LifeNext ==
    \/ \E t \in Threads : createMain(t)
    \/ \E t \in Threads : createForThread(t)
    \/ \E t \in Threads, r \in ReactorIds : releaseLast(t, r)

SpecLife == Init /\ [][LifeNext]_vars

(***************************************************************************)
(* C1: after any sequence of constructions and destructions performed by   *)
(* any threads, every thread has at most one live Reactor constructed on   *)
(* it, and a construction attempt on a thread that already has a live      *)
(* Reactor fails with an error.                                            *)
(***************************************************************************)
C1_OneReactorPerThread ==
    /\ \A t \in Threads : Cardinality(LiveOn(t)) <= 1
    /\ (lifeEvt.op \in {"createMain", "createForThread"} /\ lifeEvt.hadLive)
          => ~lifeEvt.ok

\* the entries of a pollfds vector that watch fd
EntriesFor(pollfds, fd) == {i \in 1..Len(pollfds) : pollfds[i].pollfd = fd}

\* the event sources the adapters of a collection belong to, in order
AdapterIds(srcs) == [i \in 1..Len(srcs) |-> srcs[i].eventSource]

(* C2: for every source and fd, updateEventSource(source, fd, m2) called    *)
(* when an earlier updateEventSource(source, fd, m1) has left an entry for  *)
(* fd leaves the adapter with exactly one entry for fd, requesting the mask *)
(* derived from m2; the number of adapters, their order and every other     *)
(* entry are as they were after the first call.                             *)
C2_UpsertLastWriteWins ==
    [][(lastOp'.op = "updateEventSource" /\ lastOp'.ok /\ lastOp'.found) =>
         LET it == AdapterIdx(eventSources, lastOp'.src)
             old == eventSources[it].pollfds
             new == eventSources'[it].pollfds
             fdIt == EntryIdx(old, lastOp'.fd)
         IN /\ AdapterIds(eventSources') = AdapterIds(eventSources)
            /\ \A i \in 1..Len(eventSources) : i /= it => eventSources'[i] = eventSources[i]
            /\ Len(new) = Len(old)
            /\ EntriesFor(new, lastOp'.fd) = {fdIt}
            /\ new[fdIt].reqEvents = CondOf(lastOp'.mode)
            /\ new[fdIt].tag.events = CondOf(lastOp'.mode)
            /\ \A i \in 1..Len(old) : i /= fdIt => new[i] = old[i]]_vars

\* a second update with another mode has just replaced the mask of the entry
C2_Witness ==
    /\ lastOp.op = "updateEventSource"
    /\ lastOp.found
    /\ lastOp.old /= CondOf(lastOp.mode)
    /\ LET ad == eventSources[AdapterIdx(eventSources, lastOp.src)]
       IN /\ Cardinality(EntriesFor(ad.pollfds, lastOp.fd)) = 1
          /\ ad.pollfds[EntryIdx(ad.pollfds, lastOp.fd)].reqEvents = CondOf(lastOp.mode)

(* C3: when removeEventSource(source, ALL_FDS) returns, every entry of the  *)
(* source's adapter is orphaned (null tag, its native watch removed) and    *)
(* the adapter is still in _eventSources; an adapter leaves _eventSources   *)
(* only in a dispatch pass, never inside a removeEventSource call.          *)
C3_RemoveAllOrphansOnly ==
    [][/\ (lastOp'.op = "removeEventSource" /\ lastOp'.found /\ lastOp'.fd = ALL_FDS) =>
            LET it == AdapterIdx(eventSources, lastOp'.src)
            IN /\ AdapterIds(eventSources') = AdapterIds(eventSources)
               /\ Len(eventSources'[it].pollfds) = Len(eventSources[it].pollfds)
               /\ \A i \in 1..Len(eventSources'[it].pollfds) :
                      eventSources'[it].pollfds[i].tag = NullTag
               /\ eventSources'[it].leaked = eventSources[it].leaked
       /\ (Range(AdapterIds(eventSources)) \ Range(AdapterIds(eventSources')) /= {}) =>
            (lastOp'.op = "destructAdapter" /\ pc = "dispatch")]_vars

\* removeEventSource(source, ALL_FDS) has just orphaned live entries and the
\* adapter is still registered
C3_Witness ==
    /\ lastOp.op = "removeEventSource"
    /\ lastOp.fd = ALL_FDS
    /\ lastOp.found
    /\ lastOp.old /= {}
    /\ AdapterIdx(eventSources, lastOp.src) /= 0
    /\ \A i \in 1..Len(eventSources[AdapterIdx(eventSources, lastOp.src)].pollfds) :
           eventSources[AdapterIdx(eventSources, lastOp.src)].pollfds[i].tag = NullTag

\* the step is a removing call made from inside a dispatched callback
RemovalInCallback ==
    lastOp'.op \in {"removeEventSource", "removeTimer"} /\ lastOp'.ok /\ lastOp'.inCb

(* C4 as stated: when removeEventSource or removeTimer is called from       *)
(* inside a callback running during a dispatch, no adapter is detached from *)
(* the collections of the Reactor (_eventSources, _runningTimers, the       *)
(* sources attached to the context) or destroyed during that call.          *)
C4_RemovalDeferred ==
    [][RemovalInCallback =>
         /\ AdapterIds(eventSources') = AdapterIds(eventSources)
         /\ runningTimers' = runningTimers
         /\ ctxSources' = ctxSources]_vars

(* C4 amended: removeEventSource called from inside a dispatched callback   *)
(* detaches and destroys no adapter during the call; removeTimer called     *)
(* from inside a dispatched callback erases the adapter of that Timer from  *)
(* _runningTimers and destroys it within the call, also when it is the      *)
(* adapter being dispatched, and touches no other adapter.                  *)
C4_OnlyFdRemovalDeferred ==
    [][RemovalInCallback =>
         /\ AdapterIds(eventSources') = AdapterIds(eventSources)
         /\ IF lastOp'.op = "removeTimer" /\ lastOp'.found
            THEN /\ runningTimers' = Without(runningTimers, lastOp'.timer)
                 /\ ctxSources' = Without(ctxSources, SrcRef("timer", lastOp'.timer))
                 /\ SrcRef("timer", lastOp'.timer) \notin Range(pending')
            ELSE /\ runningTimers' = runningTimers
                 /\ ctxSources' = ctxSources]_vars

\* a Timer has just removed itself inside its own expire(): its adapter is gone
C4_Witness ==
    /\ lastOp.op = "removeTimer"
    /\ lastOp.inCb
    /\ lastOp.found
    /\ cur.kind = "timer"
    /\ cur.id = lastOp.timer
    /\ lastOp.timer \notin Range(runningTimers)

(* C5 as stated: an idle callback enqueued with invokeOnIdle from inside an *)
(* idle callback running in idle pass N is not invoked during pass N.       *)
C5_EnqueuedRunsNextPass ==
    [][lastOp'.op = "idleFn" => lastOp'.fd \notin idleObs.enqThis]_vars

\* idle callback f is being run by runIdleTasks
RunningIdle(f) == pc = "callback" /\ cur.kind = "idle" /\ cur.i = f

(* C6: an idle callback that returns true k times and then false is invoked *)
(* exactly k+1 times, at most once per idle pass, in k+1 successive idle    *)
(* passes; until it has returned false it stays queued for the next pass,   *)
(* and after the pass in which it returned false it is no longer in the     *)
(* idle queue and is never invoked again.                                   *)
C6_RerunUntilFalse ==
    \A f \in IdleFnIds :
        LET count == idleObs.count[f]
            span == idleObs.span[f]
            queued == f \in Range(idleFuncs) \cup Range(rerunQueue)
        IN /\ count <= idleObs.k0[f] + 1
           /\ f \in idleObs.done =>
                 /\ count = idleObs.k0[f] + 1
                 /\ span = count
                 /\ ~queued
                 /\ ~RunningIdle(f)
           /\ (count > 0 /\ f \notin idleObs.done) =>
                 /\ queued \/ RunningIdle(f)
                 /\ ~(queued /\ RunningIdle(f))
                 /\ span \in {count, count + 1}
                 /\ span = count + 1 => (InIdlePass /\ f \in Range(idleFuncs))
                 /\ (InIdlePass /\ f \in Range(idleFuncs)) => span = count + 1

\* the only callback returned true three times and then false: four passes,
\* four invocations, empty queue
C6_Witness ==
    /\ idleObs.next = 2
    /\ idleObs.k0[1] = 3
    /\ 1 \in idleObs.done
    /\ idleObs.count[1] = 4
    /\ idleObs.span[1] = 4
    /\ idleFuncs = <<>>
    /\ lastOp.op = "idleEnd"

(* C7: an object handed to unrefLater is held by the Reactor from the call  *)
(* on and is released only at the end of an idle pass, after every idle     *)
(* callback invoked in that pass has returned; never inside the unrefLater  *)
(* call or while an idle callback of that pass is still to run.             *)
C7_ReleasedAtEndOfPass ==
    [][/\ lastOp'.op = "unrefLater" =>
             /\ lastOp'.fd \in Range(unrefLater')
             /\ lastOp'.fd \notin idleObs'.released
       /\ Range(unrefLater) \subseteq Range(unrefLater') \cup idleObs'.released
       /\ (idleObs'.released /= idleObs.released \/ Range(unrefLater) \ Range(unrefLater') /= {}) =>
             /\ lastOp'.op = "idleEnd"
             /\ pc = "idleloop"
             /\ idleFuncs = <<>>
             /\ idleObs'.released = idleObs.released \cup Range(unrefLater)]_vars

\* an idle pass in which a callback ran has just ended and released an object
C7_Witness ==
    /\ lastOp.op = "idleEnd"
    /\ idleObs.released /= {}
    /\ unrefLater = <<>>
    /\ \E f \in IdleFnIds : idleObs.count[f] > 0

\* the iteration has dispatched every source it found ready
IterDone == pc = "dispatch" /\ pending = <<>>

(* C8 as stated: if a registered Timer reports remaining() = 0 when an      *)
(* iteration computes its wait budget, the iteration polls with timeout 0,  *)
(* does not wait, and invokes expire() of the Timer in the same iteration.  *)
C8_DueTimerExpires ==
    /\ iter.due /= {} => (pollTimeout = 0 /\ iter.waited = 0)
    /\ IterDone => iter.due \subseteq iter.expired

(* C8 amended: if a registered Timer reports remaining() = 0 when an        *)
(* iteration computes its wait budget, the iteration polls with timeout 0   *)
(* and does not wait, and it invokes expire() of the Timer in the same      *)
(* iteration unless a callback dispatched earlier in that iteration has     *)
(* called removeTimer for it.                                               *)
C8_DueTimerExpiresUnlessRemoved ==
    /\ iter.due /= {} => (pollTimeout = 0 /\ iter.waited = 0)
    /\ IterDone => (iter.due \ iter.removed) \subseteq iter.expired

\* an iteration that found two Timers due has expired one, whose expire()
\* removed the other, and is done
C8_Witness ==
    /\ IterDone
    /\ iter.waited = 0
    /\ iter.expired /= {}
    /\ iter.due \ iter.expired /= {}
    /\ iter.due \ iter.expired \subseteq iter.removed

(* C9: runOnce() performs exactly one iteration and never blocks in the     *)
(* native poll, whatever timeouts the timers and fd sources contribute;     *)
(* run() keeps iterating and does not return before quit() was invoked.     *)
C9_RunOnceOneIterationRunUntilQuit ==
    [][/\ iter'.call = "run_once" =>
             /\ pollTimeout' = 0
             /\ iter'.waited = 0
             /\ iter'.n = 1
       /\ (iter.call = "run_once" /\ IterDone) => pc' = "out"
       /\ (iter.call = "run" /\ IterDone /\ ~iter.quit) =>
             /\ pc' = "poll"
             /\ iter'.call = "run"
       /\ (iter.call = "run" /\ pc' = "out") => (iter.quit /\ IterDone)]_vars

\* runOnce() has polled without waiting although the only Timer had 50 left
C9_Witness ==
    /\ iter.call = "run_once"
    /\ pc = "check"
    /\ runningTimers /= <<>>
    /\ \A t \in Range(runningTimers) : remaining[t] = 50
    /\ pollTimeout = 0
    /\ iter.waited = 0

\* the iteration began with one registered Timer, remaining() = 50, and no
\* other source became ready in it
SoleTimer50 ==
    IterDone /\ iter.sole50 /= "-" /\ ~iter.otherReady /\ ~iter.fdReady

(* C10 as stated: with one registered Timer T whose remaining() is 50 and   *)
(* no other ready source, a single runOnce() call waits up to 50 ms in the  *)
(* native poll and then invokes T.expire() before it returns.               *)
C10_RunOnceWaitsForTimer ==
    (SoleTimer50 /\ iter.call = "run_once") => iter.sole50 \in iter.expired

(* C10 amended: with one registered Timer T whose remaining() is 50 and no  *)
(* other ready source, a single runOnce() call polls with timeout 0, does   *)
(* not wait and returns without invoking T.expire(); an iteration of run()  *)
(* polls with timeout 50, waits 50 ms and then invokes T.expire().          *)
C10_OnlyRunWaitsForTimer ==
    SoleTimer50 =>
        IF iter.call = "run_once"
        THEN /\ pollTimeout = 0
             /\ iter.waited = 0
             /\ iter.expired = {}
        ELSE /\ pollTimeout = 50
             /\ iter.waited = 50
             /\ iter.expired = {iter.sole50}

\* runOnce() is done with the iteration and the Timer with 50 left has not
\* expired
C10_Witness ==
    /\ SoleTimer50
    /\ iter.call = "run_once"
    /\ iter.sole50 \in Range(runningTimers)
    /\ remaining[iter.sole50] = 50
    /\ iter.expired = {}

\* the events C11 says onFdReady gets for observed conditions obs and
\* requested mask req
ClaimedEvents(obs, req) ==
    {ev \in {"Read", "Write", "Exception", "Error"} :
        \/ ev = "Read" /\ ("IN" \in obs \/ "HUP" \in obs) /\ "IN" \in req
        \/ ev = "Write" /\ "OUT" \in obs /\ "OUT" \in req
        \/ ev = "Exception" /\ "PRI" \in obs /\ "PRI" \in req
        \/ ev = "Error" /\ "ERR" \in obs /\ "ERR" \in req}

\* a step of the dispatch phase over the entries: the entry under the
\* iterator gets onFdReady(fd, events) with the claimed events when it is live
\* and its observed conditions meet its requested mask, is passed over
\* otherwise, and is left behind when its callback returns
DispatchVisitsEntry ==
    /\ (pc = "fdloop" /\ pc' /= "crashed") =>
          LET ad == eventSources[AdapterIdx(eventSources, cur.id)]
          IN IF cur.i > cur.n
             THEN lastOp'.op = "dispatchFdDone" /\ pc' = "dispatch"
             ELSE LET e == ad.pollfds[cur.i]
                  IN IF e.tag /= NullTag /\ e.tag.revents \cap e.reqEvents /= {}
                     THEN /\ lastOp'.op = "onFdReady"
                          /\ lastOp'.src = cur.id
                          /\ lastOp'.fd = e.pollfd
                          /\ lastOp'.mode = ClaimedEvents(e.tag.revents, e.reqEvents)
                          /\ pc' = "callback"
                          /\ cur' = cur
                     ELSE /\ lastOp'.op = "skipEntry"
                          /\ cur'.i = cur.i + 1
    /\ lastOp'.op = "onFdReady" => pc = "fdloop"
    /\ (pc = "callback" /\ cur.kind = "fd" /\ pc' = "fdloop") => cur'.i = cur.i + 1

\* the part of C11 that holds: which entries get onFdReady and with which
\* events, as long as the dispatch phase goes on
C11_EventsOfVisitedEntries == [][DispatchVisitsEntry]_vars

(* C11: in the dispatch phase of an adapter with a non-empty entry list,    *)
(* onFdReady(fd, events) is invoked exactly once for every live entry whose *)
(* observed conditions meet its requested mask and not for the others, with *)
(* events being Read iff (read-in or hangup observed) and Read requested,   *)
(* Write iff write-out observed and Write requested, Exception iff          *)
(* priority-urgent observed and Exception requested, Error iff error        *)
(* observed and Error in the requested mask: every entry of the list is     *)
(* visited, so the phase does not break off before an entry that is to get *)
(* onFdReady.                                                               *)
C11_DispatchInvokesTriggered ==
    [][/\ DispatchVisitsEntry
       /\ (pc = "fdloop" /\ \E j \in cur.i..cur.n :
              Triggered(eventSources[AdapterIdx(eventSources, cur.id)],
                        eventSources[AdapterIdx(eventSources, cur.id)].pollfds[j]))
             => pc' /= "crashed"]_vars

(* C12: updateEventSource and removeEventSource called with a source whose *)
(* recorded owning Reactor is another one raise an error and leave the      *)
(* state of the Reactor unchanged: no adapter is created, no entry is       *)
(* added, modified or orphaned.                                             *)
C12_ForeignSourceRejected ==
    [][(lastOp'.op \in {"updateEventSource", "removeEventSource"}
          /\ lastOp'.src \in ForeignNotifiers) =>
         /\ ~lastOp'.ok
         /\ eventSources' = eventSources
         /\ ctxSources' = ctxSources
         /\ UNCHANGED <<calls, timerVars, idleVars, loopVars, iter, lifeVars>>]_vars

\* a call with a foreign source has just been rejected by a Reactor that
\* holds an adapter with a live entry
C12_Witness ==
    /\ lastOp.op \in {"updateEventSource", "removeEventSource"}
    /\ lastOp.src \in ForeignNotifiers
    /\ ~lastOp.ok
    /\ Watches /= {}
    /\ AdapterIdx(eventSources, lastOp.src) = 0

\* the source has no adapter, or its adapter has no entry watching fd
NothingToRemove(srcs, notifier, fd) ==
    \/ AdapterIdx(srcs, notifier) = 0
    \/ fd /= ALL_FDS /\ EntryIdx(srcs[AdapterIdx(srcs, notifier)].pollfds, fd) = 0

(* C13: removeEventSource(source, fd) for a source that has no adapter, or  *)
(* for an fd that the adapter of the source does not watch, returns without *)
(* error and leaves the adapter collection and every entry (fd, requested   *)
(* mask, native tag) unchanged.                                             *)
C13_RemoveMissingIsNoOp ==
    [][(lastOp'.op = "removeEventSource"
          /\ lastOp'.src \in Notifiers
          /\ NothingToRemove(eventSources, lastOp'.src, lastOp'.fd)) =>
         /\ lastOp'.ok
         /\ eventSources' = eventSources
         /\ ctxSources' = ctxSources]_vars

\* removeEventSource has just returned for an fd that the adapter of the
\* source, which watches another fd, does not watch
C13_Witness ==
    /\ lastOp.op = "removeEventSource"
    /\ lastOp.ok
    /\ lastOp.found
    /\ lastOp.fd /= ALL_FDS
    /\ lastOp.old = {}
    /\ \E w \in Watches : eventSources[w[1]].eventSource = lastOp.src

(* C14: after any sequence of registerTimer and removeTimer calls the       *)
(* Reactor holds at most one Timer Source Adapter per Timer and             *)
(* runningTimers() is the number of distinct Timers whose last call was     *)
(* registerTimer: registerTimer adds the Timer to the registered ones,      *)
(* removeTimer takes it out, nothing else changes them; registerTimer of a  *)
(* registered Timer and removeTimer of an unregistered one change nothing.  *)
C14_OneAdapterPerTimer ==
    [][/\ Range(runningTimers') =
            IF lastOp'.op = "registerTimer" THEN Range(runningTimers) \cup {lastOp'.timer}
            ELSE IF lastOp'.op = "removeTimer" THEN Range(runningTimers) \ {lastOp'.timer}
            ELSE Range(runningTimers)
       /\ runningTimersCount' = Cardinality(Range(runningTimers'))
       /\ \A t \in Timers :
             Cardinality({i \in 1..Len(ctxSources') : ctxSources'[i] = SrcRef("timer", t)})
                = IF t \in Range(runningTimers') THEN 1 ELSE 0
       /\ ((lastOp'.op = "registerTimer" /\ lastOp'.timer \in Range(runningTimers))
             \/ (lastOp'.op = "removeTimer" /\ lastOp'.timer \notin Range(runningTimers))) =>
            UNCHANGED <<runningTimers, remaining, ctxSources, pending>>]_vars

\* a registered Timer has just been registered again and runningTimers() is
\* still 1
C14_Witness ==
    /\ lastOp.op = "registerTimer"
    /\ lastOp.found
    /\ runningTimers = <<lastOp.timer>>
    /\ runningTimersCount = 1

(* C15: in every reachable state instance() called on a thread returns the  *)
(* live Reactor constructed on that thread if there is one and the empty    *)
(* handle otherwise, never a handle to a destroyed Reactor; and after the   *)
(* Reactor of a thread is destroyed a new one can be constructed on it.     *)
C15_InstanceIsLiveReactorOfThread ==
    /\ \A t \in Threads :
          /\ LiveOn(t) /= {} => instance(t) \in LiveOn(t)
          /\ LiveOn(t) = {} => instance(t) = NoReactor
          /\ instance(t) /= NoReactor => instance(t) \in live
    /\ (lifeEvt.op \in {"createMain", "createForThread"} /\ ~lifeEvt.hadLive) => lifeEvt.ok

(* C16: for every mode bitmask passed to updateEventSource the stored       *)
(* requested mask contains read-in and hangup iff Read is in mode, write-out *)
(* iff Write is in mode, priority-urgent iff Exception is in mode, and the  *)
(* Error condition whenever Read or Write is in mode.                       *)
C16_RequestedMaskOfMode ==
    [][(lastOp'.op = "updateEventSource" /\ lastOp'.ok) =>
         LET ad == eventSources'[AdapterIdx(eventSources', lastOp'.src)]
             req == ad.pollfds[EntryIdx(ad.pollfds, lastOp'.fd)].reqEvents
             mode == lastOp'.mode
         IN /\ "IN" \in req <=> "Read" \in mode
            /\ "HUP" \in req <=> "Read" \in mode
            /\ "OUT" \in req <=> "Write" \in mode
            /\ "PRI" \in req <=> "Exception" \in mode
            /\ ("Read" \in mode \/ "Write" \in mode) => "ERR" \in req
            /\ req \subseteq {"IN", "HUP", "OUT", "PRI", "ERR"}]_vars

\* updateEventSource with Write and Exception has just stored write-out,
\* priority-urgent and error
C16_Witness ==
    /\ lastOp.op = "updateEventSource"
    /\ lastOp.ok
    /\ lastOp.mode = {"Write", "Exception"}
    /\ LET ad == eventSources[AdapterIdx(eventSources, lastOp.src)]
       IN ad.pollfds[EntryIdx(ad.pollfds, lastOp.fd)].reqEvents = {"OUT", "PRI", "ERR"}

\* quit() has been invoked while run() is iterating
QuitPending == loop.inRun /\ ~loop.isRunning

C18_IdleArmedAfterEnqueue ==
    /\ [][lastOp'.op \in {"invokeOnIdle", "unrefLater"} => idleSource' = "attached"]_vars
    /\ \A f \in IdleFnIds : (f \in Range(idleFuncs)) ~> (idleObs.count[f] > 0)
    /\ \A o \in IdleFnIds : (o \in Range(unrefLater)) ~> (o \in idleObs.released)

(* C19: removeEventSource(source, fd) with fd different from the all-fds    *)
(* sentinel orphans only the entry of that source watching fd: every other  *)
(* entry of the same adapter, every entry of other adapters and the adapter *)
(* collection itself are unchanged.                                         *)
C19_RemoveOneOrphansOne ==
    [][(lastOp'.op = "removeEventSource" /\ lastOp'.ok /\ lastOp'.fd /= ALL_FDS
          /\ ~NothingToRemove(eventSources, lastOp'.src, lastOp'.fd)) =>
         LET it == AdapterIdx(eventSources, lastOp'.src)
             old == eventSources[it].pollfds
             new == eventSources'[it].pollfds
             fdIt == EntryIdx(old, lastOp'.fd)
         IN /\ AdapterIds(eventSources') = AdapterIds(eventSources)
            /\ ctxSources' = ctxSources
            /\ \A a \in 1..Len(eventSources) : a /= it => eventSources'[a] = eventSources[a]
            /\ Len(new) = Len(old)
            /\ new[fdIt].tag = NullTag
            /\ new[fdIt].reqEvents = old[fdIt].reqEvents
            /\ \A i \in 1..Len(old) : i /= fdIt => new[i] = old[i]
            /\ eventSources'[it].leaked = eventSources[it].leaked]_vars

\* one of two live entries of an adapter has just been orphaned, the other
\* one is still live
C19_Witness ==
    /\ lastOp.op = "removeEventSource"
    /\ lastOp.fd /= ALL_FDS
    /\ lastOp.old = {lastOp.fd}
    /\ LET ad == eventSources[AdapterIdx(eventSources, lastOp.src)]
       IN /\ Len(ad.pollfds) = 2
          /\ \E i, j \in 1..2 : ad.pollfds[i].tag = NullTag /\ ad.pollfds[j].tag /= NullTag

\* GAbstractEventSource::dispatch is iterating over the entries of an adapter
DispatchIterating == pc \in {"fdloop", "callback"} /\ cur.kind = "fd"

(* C20: while the dispatch phase of an adapter is iterating over its watch  *)
(* entries, no element is added to or erased from the entry collection of   *)
(* that adapter, whatever updateEventSource and removeEventSource calls the *)
(* invoked onFdReady callbacks make.                                        *)
C20_NoStructuralChangeWhileIterating ==
    [][DispatchIterating =>
         /\ AdapterIdx(eventSources', cur.id) = AdapterIdx(eventSources, cur.id)
         /\ Len(eventSources'[AdapterIdx(eventSources, cur.id)].pollfds)
               = Len(eventSources[AdapterIdx(eventSources, cur.id)].pollfds)
         /\ ~iterInvalid']_vars

\* the entry is orphaned or its native watch is reported invalid
SweptAway(e) == e.tag = NullTag \/ "NVAL" \in e.tag.revents

(* C21: the readiness-check phase of an adapter erases exactly the entries  *)
(* that are orphaned (null native tag) or whose native watch is reported    *)
(* invalid, keeps all other entries in order, raises no error for an        *)
(* invalid watch, and reports the adapter ready iff at least one remaining  *)
(* entry has an observed condition in its requested mask or the entry list  *)
(* is empty after the sweep.                                                *)
C21_CheckSweepsOrphanedAndInvalid ==
    [][lastOp'.op = "check" =>
         /\ pc' = "dispatch"
         /\ lastOp'.ok
         /\ AdapterIds(eventSources') = AdapterIds(eventSources)
         /\ \A a \in 1..Len(eventSources) :
               LET old == eventSources[a].pollfds
                   new == eventSources'[a].pollfds
                   Stays(e) == ~SweptAway(e)
               IN /\ new = SelectSeq(old, Stays)
                  /\ (SrcRef("fd", eventSources[a].eventSource) \in Range(pending'))
                        <=> (\/ \E i \in 1..Len(new) :
                                   new[i].tag.revents \cap new[i].reqEvents /= {}
                             \/ new = <<>>)]_vars

\* a readiness check has just erased an entry whose watch was reported
\* invalid, kept the other entry, which is readable, and reported the adapter
\* ready
C21_Witness ==
    /\ lastOp.op = "check"
    /\ Len(eventSources) = 1
    /\ eventSources[1].leaked
    /\ Len(eventSources[1].pollfds) = 1
    /\ "IN" \in eventSources[1].pollfds[1].tag.revents
    /\ SrcRef("fd", eventSources[1].eventSource) \in Range(pending)

\* the dispatcher once the first updateEventSource calls of an event source
\* have returned, the last one for fd: ad is the adapter they leave
RegisteredInit(ad, fd) ==
    /\ eventSources = <<ad>>
    /\ ctxSources = <<SrcRef("fd", ad.eventSource)>>
    /\ runningTimers = <<>>
    /\ remaining = [t \in Timers |-> 0]
    /\ idleSource = "new"
    /\ idleFuncs = <<>>
    /\ rerunQueue = <<>>
    /\ unrefLater = <<>>
    /\ pc = "out"
    /\ loop = [inRun |-> FALSE, isRunning |-> FALSE, mayBlock |-> FALSE]
    /\ pollTimeout = 0
    /\ pending = <<>>
    /\ cur = NoCur
    /\ iterInvalid = FALSE
    /\ calls = 0
    /\ lastOp = Op("updateEventSource", ad.eventSource, fd, {"Read"}, "-", TRUE, FALSE)
    /\ iter = BlankIter
    /\ idleObs = [next |-> 1, nextObj |-> 1,
                  budget |-> [f \in IdleFnIds |-> 0],
                  k0 |-> [f \in IdleFnIds |-> 0],
                  count |-> [f \in IdleFnIds |-> 0],
                  span |-> [f \in IdleFnIds |-> 0],
                  done |-> {}, enqThis |-> {}, released |-> {}]

\* the dispatcher once updateEventSource("S1", 4, Read) has returned
WatchingInit == RegisteredInit(Upsert(NewAdapter("S1"), 4, CondOf({"Read"})), 4)

\* the calls of the event sources for one descriptor, made outside the loop
\* and inside onFdReady, and the iterations of runOnce()
SweepSteps ==
    \/ IterationSteps
    \/ \E s \in Notifiers : updateEventSource(s, 4, {"Read"})
    \/ \E s \in Notifiers, fd \in {4, ALL_FDS} : removeEventSource(s, fd)
    \/ DispatchFd
    \/ FdLoop
    \/ FdLoopCrash
    \/ onFdReadyReturn

SweepInit == LifeInit /\ WatchingInit

SpecSweep == SweepInit /\ [][SweepSteps]_vars

\* the dispatch phase is about to dispatch the adapter of a source whose
\* entries were all orphaned when this iteration ran its readiness check
DispatchOfOrphaned ==
    /\ pc = "dispatch"
    /\ pending /= <<>>
    /\ Head(pending).kind = "fd"
    /\ Head(pending).id \in iter.orphaned

\* the readiness check hands every adapter it found all orphaned, swept to
\* no entry, to the dispatch phase of the same iteration
OrphanedAreDispatched ==
    lastOp'.op = "check" =>
        \A a \in 1..Len(eventSources) :
            AllOrphaned(eventSources[a]) =>
               /\ eventSources[a].eventSource \in iter'.orphaned
               /\ eventSources'[a].pollfds = <<>>
               /\ SrcRef("fd", eventSources[a].eventSource) \in Range(pending')

WatchingTwoInit ==
    RegisteredInit(Upsert(Upsert(NewAdapter("S1"), 4, CondOf({"Read"})),
                          5, CondOf({"Read"})), 5)

\* an event source that watches two descriptors, starts to watch a third
\* one and removes descriptors, outside the loop and inside onFdReady
StaleSteps ==
    \/ IterationSteps
    \/ updateEventSource("S1", 6, {"Read"})
    \/ \E fd \in FDs \cup {ALL_FDS} : removeEventSource("S1", fd)
    \/ DispatchFd
    \/ FdLoop
    \/ FdLoopCrash
    \/ FdLoopStale
    \/ onFdReadyReturn

StaleInit == LifeInit /\ WatchingTwoInit

SpecStale == StaleInit /\ [][StaleSteps]_vars

InEnqueueOrder(S) ==
    [i \in 1..Cardinality(S) |-> CHOOSE f \in S : Cardinality({g \in S : g < f}) = i - 1]

(* C24: within one idle pass callbacks are invoked in FIFO order of the     *)
(* idle queue, and the idle queue after the pass holds the callbacks that   *)
(* returned true in their previous relative order, followed by the          *)
(* callbacks that were enqueued during the pass.                            *)
C24_QueueAfterPass ==
    [][/\ lastOp'.op = "idleFn" =>
             /\ lastOp'.fd = Head(idleFuncs)
             /\ idleFuncs' = Tail(idleFuncs)
       /\ lastOp'.op = "idleEnd" =>
             LET Before(f) == f \notin idleObs.enqThis
             IN idleFuncs' = SelectSeq(rerunQueue, Before) \o InEnqueueOrder(idleObs.enqThis)]_vars

\* While runIdleTasks() runs, every invocation pops one callback and every
\* invokeOnIdle pushes one: invoked = length at the start + enqueued during
\* the pass - length now. The callbacks invoked so far in the running pass
\* beyond the length the idle queue had when the pass started
InvokedBeyondStart == Cardinality(idleObs.enqThis) - Len(idleFuncs)

(* C27: every idle pass terminates: the number of callbacks invoked in one  *)
(* pass is at most the length of the idle queue when the pass started, also *)
(* when callbacks enqueue further idle callbacks (including themselves)     *)
(* while the pass is running.                                               *)
C27_PassInvokesAtMostQueueLength ==
    InIdlePass => InvokedBeyondStart <= 0

(***************************************************************************)
(* GLibTimerSource::prepare / check / dispatch over the whole range of     *)
(* remaining(). A uint64_t is modelled by its four 16-bit digits, the most *)
(* significant first.                                                      *)
(***************************************************************************)
Limb == 65536

\* the digits the explored values are made of: the least, the greatest and
\* the ones around the sign bit
LimbValues == {0, 1, Limb \div 2 - 1, Limb \div 2, Limb - 1}

UInt64s == LimbValues \X LimbValues \X LimbValues \X LimbValues

UZero == <<0, 0, 0, 0>>

\* line 170 with the comparison never true
NeverExceeds(r) == FALSE

\* line 170: nextTimeout > G_MAXINT, G_MAXINT converted to uint64_t
ExceedsMaxInt(r) == r[1] > 0 \/ r[2] > 0 \/ r[3] >= Limb \div 2

\* line 173: static_cast<gint>( nextTimeout ) keeps the low 32 bits, read in
\* two's complement
CastToGint(r) ==
    IF r[3] >= Limb \div 2 THEN (r[3] - Limb) * Limb + r[4] ELSE r[3] * Limb + r[4]

\* lines 170-173: the value written to *timeout
PrepareTimeout(r) == IF ExceedsMaxInt(r) THEN G_MAXINT ELSE CastToGint(r)

\* GLibTimerSource::prepare for an adapter whose _t is set (hasTimer) or
\* null; r is what remaining() reports, wantsTimeout says that timeout is not
\* a null pointer. wrote: *timeout was written
TimerSourcePrepare(hasTimer, r, wantsTimeout) ==
    IF ~hasTimer
    THEN [ready |-> FALSE, wrote |-> FALSE, timeout |-> 0]
    ELSE [ready |-> r = UZero, wrote |-> wantsTimeout,
          timeout |-> IF wantsTimeout THEN PrepareTimeout(r) ELSE 0]

\* GLibTimerSource::check
TimerSourceCheck(hasTimer, r) == TimerSourcePrepare(hasTimer, r, FALSE)

\* GLibTimerSource::dispatch: expire() is called
TimerSourceDispatch(hasTimer) == hasTimer

\* GLib calls one of the three functions of a timer adapter
TimerSourceCall(fn, hasTimer, r) ==
    /\ pc = "out"
    /\ LET res == IF fn = "prepare" THEN TimerSourcePrepare(hasTimer, r, TRUE)
                  ELSE IF fn = "check" THEN TimerSourceCheck(hasTimer, r)
                  ELSE [ready |-> FALSE, wrote |-> FALSE, timeout |-> 0]
       IN lastOp' = [op |-> fn, hasTimer |-> hasTimer, r |-> r,
                     ready |-> res.ready, wrote |-> res.wrote, timeout |-> res.timeout,
                     expired |-> fn = "dispatch" /\ TimerSourceDispatch(hasTimer)]
    /\ UNCHANGED <<eventSources, runningTimers, remaining, ctxSources, calls, iter>>
    /\ UNCHANGED <<idleVars, loopVars, lifeVars>>

TimerSourceSteps ==
    \/ \E r \in UInt64s : TimerSourceCall("prepare", TRUE, r)
    \/ \E r \in UInt64s : TimerSourceCall("check", TRUE, r)
    \/ \E fn \in {"prepare", "check"} : TimerSourceCall(fn, FALSE, UZero)
    \/ \E hasTimer \in BOOLEAN : TimerSourceCall("dispatch", hasTimer, UZero)

SpecTimerSource == Init /\ [][TimerSourceSteps]_vars

\* a timeout of the gint range that is not negative, as a uint64_t
WideOf(t) == <<0, 0, t \div Limb, t % Limb>>

\* a > b for two uint64_t
Greater(a, b) ==
    \E i \in 1..4 : a[i] > b[i] /\ \A j \in 1..(i - 1) : a[j] = b[j]

(* C25: for every value r of remaining() in the unsigned 64-bit range, a    *)
(* Timer Source Adapter with a Timer contributes the timeout min(r,         *)
(* G_MAXINT), which is never negative and never wraps around, and is ready  *)
(* exactly when r == 0; an adapter without a Timer is never ready,          *)
(* contributes no finite timeout, and its dispatch calls no expire().       *)
C25_TimeoutIsClampedRemaining ==
    lastOp.op \in {"prepare", "check", "dispatch"} =>
        IF lastOp.hasTimer
        THEN /\ lastOp.op = "prepare" =>
                   /\ lastOp.wrote
                   /\ lastOp.timeout >= 0
                   /\ lastOp.timeout <= G_MAXINT
                   /\ \/ WideOf(lastOp.timeout) = lastOp.r
                      \/ lastOp.timeout = G_MAXINT /\ Greater(lastOp.r, WideOf(G_MAXINT))
             /\ lastOp.op \in {"prepare", "check"} => (lastOp.ready <=> lastOp.r = UZero)
             /\ lastOp.op = "dispatch" => lastOp.expired
        ELSE /\ ~lastOp.ready
             /\ ~lastOp.wrote
             /\ ~lastOp.expired

\* prepare has just clamped the greatest uint64_t, whose low 32 bits read as
\* a gint are -1, to G_MAXINT
C25_Witness ==
    /\ lastOp.op = "prepare"
    /\ lastOp.hasTimer
    /\ lastOp.r = <<Limb - 1, Limb - 1, Limb - 1, Limb - 1>>
    /\ CastToGint(lastOp.r) = -1
    /\ lastOp.timeout = G_MAXINT
    /\ ~lastOp.ready

\* the step is updateEventSource(source, fd, mode) made right after a
\* removeEventSource call that orphaned the live entry of source for fd: no
\* readiness check has swept the orphaned entry yet
ReAddBeforeSweep ==
    /\ lastOp.op = "removeEventSource"
    /\ lastOp'.op = "updateEventSource"
    /\ lastOp'.src = lastOp.src
    /\ lastOp'.fd \in lastOp.old

(* C26: after removeEventSource has orphaned a source's entry for fd and    *)
(* before the next readiness-check sweep, updateEventSource(source, fd,     *)
(* mode) does not produce an adapter holding two entries (one orphaned, one *)
(* live) that stem from the same descriptor: the re-add is rejected and the *)
(* entries stay as they are until the orphaned entry is swept.              *)
C26_ReAddRejectedUntilSwept ==
    [][ReAddBeforeSweep =>
         /\ ~lastOp'.ok
         /\ eventSources' = eventSources]_vars

\* what poll() can report for a watch when every combination is told apart:
\* any set of the requested conditions and of hangup, error and invalid
\* descriptor, which it reports whether requested or not
EveryObserved(events) == SUBSET (events \cup {"HUP", "ERR", "NVAL"})

\* the native poll of an iteration that does not block, reporting any
\* combination of conditions for every watch
PollEvery ==
    /\ pc = "poll"
    /\ \E rv \in [Watches -> SUBSET {"IN", "HUP", "OUT", "PRI", "ERR", "NVAL"}] :
         /\ \A w \in Watches :
              rv[w] \in EveryObserved(eventSources[w[1]].pollfds[w[2]].tag.events)
         /\ eventSources' = WithRevents(eventSources, rv)
         /\ iter' = [iter EXCEPT !.waited = 0,
                                 !.fdReady = \E w \in Watches : rv[w] /= {}]
    /\ pc' = "check"
    /\ lastOp' = LoopOp("poll")
    /\ UNCHANGED <<runningTimers, remaining, ctxSources, loop, pollTimeout, pending, cur,
                   iterInvalid, calls>>
    /\ UNCHANGED <<idleVars, lifeVars>>

\* one event source watching descriptor 4 in any mode and descriptor 5 for
\* reading, changing the modes outside the loop and inside onFdReady
EventsSteps ==
    \/ run_once
    \/ PollEvery
    \/ Check
    \/ IterationEnd
    \/ \E m \in Modes : updateEventSource("S1", 4, m)
    \/ updateEventSource("S1", 5, {"Read"})
    \/ DispatchFd
    \/ FdLoop
    \/ FdLoopCrash
    \/ onFdReadyReturn

SpecEvents == Init /\ [][EventsSteps]_vars

(* C28: onFdReady is never invoked with an empty event mask: for every      *)
(* requested mask that updateEventSource can store and every set of         *)
(* observed native conditions, an entry that is dispatched gets at least    *)
(* one of Read, Write, Exception, Error.                                    *)
C28_EventMaskNotEmpty ==
    [][lastOp'.op = "onFdReady" =>
         /\ lastOp'.mode /= {}
         /\ lastOp'.mode \subseteq {"Read", "Write", "Exception", "Error"}]_vars

\* onFdReady has just been called with Error alone for an entry that
\* requests Write, of which poll reported error and hangup
C28_Witness ==
    /\ lastOp.op = "onFdReady"
    /\ lastOp.mode = {"Error"}
    /\ LET ad == eventSources[AdapterIdx(eventSources, lastOp.src)]
           e == ad.pollfds[cur.i]
       IN /\ e.reqEvents = CondOf({"Write"})
          /\ e.tag.revents = {"ERR", "HUP"}

\* the thread whose Reactor the registrations of ReentrySteps are made with
OwnerThread == "t1"

\* the Reactor of OwnerThread exists
OwnerHasReactor == instance(OwnerThread) /= NoReactor

\* constructions attempted on every thread, and the Reactor of OwnerThread
\* given an event source, Timers, idle callbacks and deferred releases
ReentrySteps ==
    \/ \E t \in Threads : createMain(t)
    \/ \E t \in Threads : createForThread(t)
    \/ OwnerHasReactor /\ \E fd \in FDs : updateEventSource("S1", fd, {"Read"})
    \/ OwnerHasReactor /\ \E t \in Timers : registerTimer(t, 50)
    \/ OwnerHasReactor /\ invokeOnIdle(0)
    \/ OwnerHasReactor /\ unrefLaterCall

SpecReentry == Init /\ [][ReentrySteps]_vars

\* the step is a construction attempt that threw
ConstructionFailed ==
    /\ lifeEvt' /= lifeEvt
    /\ lifeEvt'.op \in {"createMain", "createForThread"}
    /\ ~lifeEvt'.ok

(* C29: a construction attempt that fails because the thread already has a *)
(* Reactor leaves the existing Reactor untouched: instance() on that thread *)
(* still returns the first Reactor, and its adapters, timers, idle queue    *)
(* and deferred-release list are unchanged.                                 *)
C29_FailedConstructionLeavesReactor ==
    [][ConstructionFailed =>
         /\ \A t \in Threads :
               lifeEvt'.thread = t =>
                  /\ instance(t) /= NoReactor
                  /\ instance(t)' = instance(t)
                  /\ instance(t)' \in live'
         /\ UNCHANGED <<threadDispatch, live, myThreadId>>
         /\ UNCHANGED <<eventSources, ctxSources, runningTimers, remaining>>
         /\ UNCHANGED <<idleFuncs, rerunQueue, unrefLater, idleSource>>]_vars

\* a second construction on the thread has just failed; the Reactor of the
\* thread is still the first one and still holds its adapter, its Timer and
\* its idle callback
C29_Witness ==
    /\ lifeEvt.op \in {"createMain", "createForThread"}
    /\ ~lifeEvt.ok
    /\ lifeEvt.thread = OwnerThread
    /\ instance(OwnerThread) = 1
    /\ 1 \in live
    /\ eventSources /= <<>>
    /\ runningTimers /= <<>>
    /\ idleFuncs /= <<>>
====
